---- MODULE Spec2Model ----
(***************************************************************************)
(* Killer Sudoku generator of jovankoledin/memory_game                     *)
(* (src/KillerSudoku.cpp, src/KillerSudoku.h): the state of                *)
(* KillerSudokuGame and its operations StartGame (ClearGrid, diagonal      *)
(* fill, GenerateFullSolution, GenerateCages, reveal), Update, Draw and    *)
(* ReturnToMenu.                                                           *)
(*                                                                         *)
(* StartGame runs to completion before any other method can be called;     *)
(* the model follows its control flow through pc, one step per entry of    *)
(* GenerateFullSolution, per pass of its for loop, per return, per seed    *)
(* index of GenerateCages, per growth step and per emitted cage.  While pc *)
(* is not "idle" no other method is enabled.                               *)
(*                                                                         *)
(* std::mt19937 is a deterministic generator: all randomness of a game     *)
(* comes from the two std::random_device values that seed `rng` and `g`.   *)
(* The generators are modelled as a small congruential generator whose     *)
(* state is the variable, and the seeds are drawn from 0..NumSeeds-1.      *)
(***************************************************************************)
EXTENDS Integers, Sequences, FiniteSets

\* ---------------------------------------------------------------- bounds
NumSeeds == 2
MaxUpdates == 2

\* ------------------------------------------------------------- constants
S_MEDIUM == "S_MEDIUM"
S_HARD == "S_HARD"
SudokuDifficulty == {S_MEDIUM, S_HARD}

CELL_SIZE == 50
GRID_OFFSET_X == 175
GRID_OFFSET_Y == 50

Cells == 0..80
Digits == 1..9
Seeds == 0..(NumSeeds - 1)

VARIABLES
    grid,            \* SudokuCell grid[81]
    cages,           \* std::vector<Cage> cages
    selectedIndex, score, timer, timeAccumulator, isComplete, isActive,
    rng,             \* member std::mt19937 rng
    g,               \* StartGame's local std::mt19937 g
    diff,            \* StartGame's argument
    pc,              \* position in StartGame, "idle" between handler calls
    callIndex,       \* GenerateFullSolution: argument of the call being entered / that returned
    stack,           \* GenerateFullSolution: frames of the active calls, innermost last
    retval,          \* GenerateFullSolution: value returned by the last call
    entryValues,     \* history: the values of the grid when the call that returned was entered
    maxCageSize, currentCageID, indices, pos, newCage, targetSize, step,
                     \* GenerateCages: locals (pos is the position of the range-for in indices)
    saved,           \* number of SaveScoreToBrowser calls of the current game
    restarted,       \* history: a StartGame found the cages of an earlier game
    updates          \* single Update steps of the current game (bounded by MaxUpdates)

genVars == <<maxCageSize, currentCageID, indices, pos, newCage, targetSize, step>>
solveVars == <<callIndex, stack, retval, entryValues>>
hudVars == <<selectedIndex, score, timer, timeAccumulator, isComplete, isActive>>
vars == <<grid, cages, selectedIndex, score, timer, timeAccumulator, isComplete,
          isActive, rng, g, diff, pc, callIndex, stack, retval, entryValues, maxCageSize,
          currentCageID, indices, pos, newCage, targetSize, step, saved, restarted,
          updates>>

\* ------------------------------------------------------------ randomness
\* One output of a std::mt19937: the output is read from the state, and the
\* state advances.
RngOut(s) == s
RngAdvance(s) == (5 * s + 1) % 128

Swap(a, i, j) == [a EXCEPT ![i] = a[j], ![j] = a[i]]

\* std::shuffle(first, last, gen): element i is exchanged with an element
\* drawn uniformly from the positions up to i.
RECURSIVE ShuffleFrom(_, _, _)
ShuffleFrom(a, i, s) ==
    IF i > Len(a) THEN [out |-> a, gen |-> s]
    ELSE ShuffleFrom(Swap(a, i, (RngOut(s) % i) + 1), i + 1, RngAdvance(s))

Shuffle(a, s) == ShuffleFrom(a, 2, s)

OneToNine == <<1, 2, 3, 4, 5, 6, 7, 8, 9>>

\* ------------------------------------------------------------------ grid
EmptyCell == [value |-> 0, currentInput |-> 0, cageID |-> -1,
              isFixed |-> FALSE, isError |-> FALSE]

ClearedGrid == [i \in Cells |-> EmptyCell]

\* The loop body of the diagonal fill for one box: nums[n++] goes to the
\* cells of the box in row-major order.
FillBox(gr, box, nums) ==
    LET startRow == (box \div 3) * 3
        startCol == (box % 3) * 3
        InBox(i) == /\ (i \div 9) \in startRow..(startRow + 2)
                    /\ (i % 9) \in startCol..(startCol + 2)
        n(i) == ((i \div 9) - startRow) * 3 + ((i % 9) - startCol) + 1
    IN [i \in Cells |-> IF InBox(i) THEN [gr[i] EXCEPT !.value = nums[n(i)]]
                        ELSE gr[i]]

\* for (box = 0; box < 9; box += 4): boxes 0, 4 and 8, each with its own
\* shuffle of 1..9 by g.
DiagonalFill(gr, s) ==
    LET s0 == Shuffle(OneToNine, s)
        g0 == FillBox(gr, 0, s0.out)
        s4 == Shuffle(OneToNine, s0.gen)
        g4 == FillBox(g0, 4, s4.out)
        s8 == Shuffle(OneToNine, s4.gen)
        g8 == FillBox(g4, 8, s8.out)
    IN [grid |-> g8, gen |-> s8.gen]

\* IsSafe without the check of the 3x3 box.
IsSafeNoBox(gr, index, num) ==
    LET row == index \div 9
        col == index % 9
    IN \A i \in 0..8 : /\ gr[row * 9 + i].value # num
                        /\ gr[i * 9 + col].value # num

IsSafe(gr, index, num) ==
    LET row == index \div 9
        col == index % 9
        startRow == (row \div 3) * 3
        startCol == (col \div 3) * 3
    IN /\ \A i \in 0..8 : /\ gr[row * 9 + i].value # num
                          /\ gr[i * 9 + col].value # num
       /\ \A i \in 0..2 : \A j \in 0..2 :
             gr[(startRow + i) * 9 + (startCol + j)].value # num

\* ClearGrid that leaves the cages of the last game in the list.
ClearGridKeepCages == [grid |-> ClearedGrid, cages |-> cages]

\* ClearGrid: every cell is reset and cages.clear().
ClearGrid == [grid |-> ClearedGrid, cages |-> <<>>]

\* --------------------------------------------------------------- initial
\* The locals of StartGame, GenerateFullSolution and GenerateCages while none
\* of them is running.
NoCage == [id |-> 0, targetSum |-> 0, cellIndices |-> <<>>]

Values(gr) == [c \in Cells |-> gr[c].value]
NoValues == [c \in Cells |-> 0]

NoLocals ==
    /\ g = 0
    /\ callIndex = 0
    /\ stack = <<>>
    /\ retval = FALSE
    /\ entryValues = NoValues
    /\ maxCageSize = 0
    /\ currentCageID = 0
    /\ indices = <<>>
    /\ pos = 0
    /\ newCage = NoCage
    /\ targetSize = 0
    /\ step = 0

\* The state after construction and Init(): Init() sets isActive and
\* selectedIndex; the other members are first read after StartGame wrote them.
Init ==
    /\ grid = [i \in Cells |-> EmptyCell]
    /\ cages = <<>>
    /\ restarted = FALSE
    /\ selectedIndex = -1
    /\ score = 0
    /\ timer = 0
    /\ timeAccumulator = 0
    /\ isComplete = FALSE
    /\ isActive = FALSE
    /\ rng = 0
    /\ diff = S_MEDIUM
    /\ pc = "idle"
    /\ saved = 0
    /\ updates = 0
    /\ NoLocals

\* ------------------------------------------------------------- StartGame
\* StartGame up to the diagonal fill: the flags, the seeding of rng and
\* ClearGrid; g is seeded from the random device.
StartGameBegin(d, seedRng, seedG) ==
    /\ pc = "idle"
    /\ isActive' = TRUE
    /\ isComplete' = FALSE
    /\ score' = 0
    /\ timer' = 0
    /\ timeAccumulator' = 0
    /\ selectedIndex' = -1
    /\ rng' = seedRng
    /\ grid' = ClearGrid.grid
    /\ cages' = ClearGrid.cages
    /\ g' = seedG
    /\ diff' = d
    /\ pc' = "StartGame"
    /\ saved' = 0
    /\ updates' = 0
    /\ UNCHANGED <<solveVars, genVars>>

StartGame(d, seedRng, seedG) ==
    /\ StartGameBegin(d, seedRng, seedG)
    /\ UNCHANGED restarted

\* StartGame with the history variable recording that a game generated
\* earlier was still in the members when it was called.
StartGameAgain(d, seedRng, seedG) ==
    /\ StartGameBegin(d, seedRng, seedG)
    /\ restarted' = (restarted \/ cages # <<>>)

\* The three diagonal boxes are filled and GenerateFullSolution(0) is called.
FillDiagonal ==
    /\ pc = "StartGame"
    /\ LET filled == DiagonalFill(grid, g)
       IN /\ grid' = filled.grid
          /\ g' = filled.gen
    /\ callIndex' = 0
    /\ stack' = <<>>
    /\ pc' = "GenerateFullSolution"
    /\ UNCHANGED <<cages, hudVars, rng, diff, retval, entryValues, genVars, saved, restarted,
                   updates>>

\* -------------------------------------------------- GenerateFullSolution
Push(frame) == Append(stack, frame)
Top == stack[Len(stack)]
Pop == SubSeq(stack, 1, Len(stack) - 1)

\* Entry of GenerateFullSolution(callIndex): the two early returns, or the
\* shuffle of nums before the for loop. A frame holds the argument, nums and
\* the position k of the for loop in nums (0: the call skipped a filled
\* cell), and as history the values of the grid at the entry of the call.
SolveCall ==
    /\ pc = "GenerateFullSolution"
    /\ IF callIndex = 81
       THEN /\ retval' = TRUE
            /\ entryValues' = Values(grid)
            /\ pc' = "return"
            /\ UNCHANGED <<grid, rng, callIndex, stack>>
       ELSE IF grid[callIndex].value # 0
       THEN /\ stack' = Push([index |-> callIndex, nums |-> <<>>, k |-> 0,
                              entry |-> Values(grid)])
            /\ callIndex' = callIndex + 1
            /\ UNCHANGED <<grid, rng, retval, entryValues, pc>>
       ELSE LET sh == Shuffle(OneToNine, rng)
            IN /\ stack' = Push([index |-> callIndex, nums |-> sh.out, k |-> 1,
                                 entry |-> Values(grid)])
               /\ rng' = sh.gen
               /\ pc' = "for"
               /\ UNCHANGED <<grid, callIndex, retval, entryValues>>
    /\ UNCHANGED <<cages, hudVars, g, diff, genVars, saved, restarted, updates>>

\* SafeFrom for a loop that stops one digit short of the end of nums.
SafeFromShort(gr, frame) ==
    {j \in frame.k..8 : IsSafe(gr, frame.index, frame.nums[j])}

\* The positions of nums, from k on, whose digit is safe at index.
SafeFrom(gr, frame) ==
    {j \in frame.k..9 : IsSafe(gr, frame.index, frame.nums[j])}

Min(S) == CHOOSE x \in S : \A y \in S : x <= y

\* The for loop of the innermost call, from position k of nums: it runs to
\* the first safe digit, places it and calls GenerateFullSolution(index+1),
\* or runs out of digits and returns false.
SolveFor ==
    /\ pc = "for"
    /\ LET f == Top
           safe == SafeFrom(grid, f)
       IN IF safe = {}
          THEN /\ stack' = Pop
               /\ callIndex' = f.index
               /\ retval' = FALSE
               /\ entryValues' = f.entry
               /\ pc' = "return"
               /\ UNCHANGED grid
          ELSE LET j == Min(safe)
               IN /\ grid' = [grid EXCEPT ![f.index].value = f.nums[j]]
                  /\ stack' = [stack EXCEPT ![Len(stack)].k = j]
                  /\ callIndex' = f.index + 1
                  /\ pc' = "GenerateFullSolution"
                  /\ UNCHANGED <<retval, entryValues>>
    /\ UNCHANGED <<cages, hudVars, rng, g, diff, genVars, saved, restarted, updates>>

\* An undo that leaves the digit in the cell.
UndoNothing(gr, index) == gr

\* grid[index].value = 0 after the recursive call failed.
Undo(gr, index) == [gr EXCEPT ![index].value = 0]

\* A call returned to its caller, the innermost remaining frame: a call
\* that skipped a filled cell returns the same value; the for loop returns
\* true on true, and on false resets the cell and goes on with the next digit.
SolveReturn ==
    /\ pc = "return"
    /\ stack # <<>>
    /\ LET f == Top
       IN IF f.k = 0 \/ retval
          THEN /\ stack' = Pop
               /\ callIndex' = f.index
               /\ entryValues' = f.entry
               /\ UNCHANGED <<grid, retval, pc>>
          ELSE /\ grid' = Undo(grid, f.index)
               /\ stack' = [stack EXCEPT ![Len(stack)].k = f.k + 1]
               /\ pc' = "for"
               /\ UNCHANGED <<callIndex, retval, entryValues>>
    /\ UNCHANGED <<cages, hudVars, rng, g, diff, genVars, saved, restarted, updates>>

\* GenerateFullSolution(0) returned to StartGame, which discards the result
\* and goes on to GenerateCages(diff).
SolveDone ==
    /\ pc = "return"
    /\ stack = <<>>
    /\ pc' = "GenerateCages"
    /\ UNCHANGED <<grid, cages, hudVars, rng, g, diff, solveVars, genVars, saved, restarted,
                   updates>>

\* --------------------------------------------------------- GenerateCages
ZeroTo80 == [i \in 1..81 |-> i - 1]

\* NeighborsOf taking the cell above whether or not it is in a cage already.
NeighborsOfTaken(gr, cIdx) ==
    LET r == cIdx \div 9
        c == cIdx % 9
        up == IF r > 0 THEN <<(r - 1) * 9 + c>> ELSE <<>>
        down == IF r < 8 /\ gr[(r + 1) * 9 + c].cageID = -1 THEN <<(r + 1) * 9 + c>> ELSE <<>>
        left == IF c > 0 /\ gr[r * 9 + (c - 1)].cageID = -1 THEN <<r * 9 + (c - 1)>> ELSE <<>>
        right == IF c < 8 /\ gr[r * 9 + (c + 1)].cageID = -1 THEN <<r * 9 + (c + 1)>> ELSE <<>>
    IN up \o down \o left \o right

\* NeighborsOf without the column checks of left and right: the index next
\* to the last cell of a row is the first cell of the next row.
NeighborsOfWrap(gr, cIdx) ==
    LET r == cIdx \div 9
        c == cIdx % 9
        up == IF r > 0 /\ gr[(r - 1) * 9 + c].cageID = -1 THEN <<(r - 1) * 9 + c>> ELSE <<>>
        down == IF r < 8 /\ gr[(r + 1) * 9 + c].cageID = -1 THEN <<(r + 1) * 9 + c>> ELSE <<>>
        left == IF cIdx > 0 /\ gr[cIdx - 1].cageID = -1 THEN <<cIdx - 1>> ELSE <<>>
        right == IF cIdx < 80 /\ gr[cIdx + 1].cageID = -1 THEN <<cIdx + 1>> ELSE <<>>
    IN up \o down \o left \o right

\* The body of the range-for over newCage.cellIndices for one member cell:
\* the unassigned cells above, below, left and right of it, in that order.
NeighborsOf(gr, cIdx) ==
    LET r == cIdx \div 9
        c == cIdx % 9
        up == IF r > 0 /\ gr[(r - 1) * 9 + c].cageID = -1 THEN <<(r - 1) * 9 + c>> ELSE <<>>
        down == IF r < 8 /\ gr[(r + 1) * 9 + c].cageID = -1 THEN <<(r + 1) * 9 + c>> ELSE <<>>
        left == IF c > 0 /\ gr[r * 9 + (c - 1)].cageID = -1 THEN <<r * 9 + (c - 1)>> ELSE <<>>
        right == IF c < 8 /\ gr[r * 9 + (c + 1)].cageID = -1 THEN <<r * 9 + (c + 1)>> ELSE <<>>
    IN up \o down \o left \o right

\* Neighbors collecting the cells around the seed only.
NeighborsSeedOnly(gr, cellIndices) ==
    IF cellIndices = <<>> THEN <<>> ELSE NeighborsOf(gr, Head(cellIndices))

\* The vector `neighbors` of one growth step (a cell next to two members
\* is listed twice, as in the code).
RECURSIVE Neighbors(_, _)
Neighbors(gr, cellIndices) ==
    IF cellIndices = <<>> THEN <<>>
    ELSE NeighborsOf(gr, Head(cellIndices)) \o Neighbors(gr, Tail(cellIndices))

\* TargetSum that leaves out the seed cell.
TargetSumSkipSeed(gr, cellIndices) ==
    LET RECURSIVE Sum(_)
        Sum(q) == IF q = <<>> THEN 0 ELSE gr[Head(q)].value + Sum(Tail(q))
    IN Sum(Tail(cellIndices))

\* newCage.targetSum: the sum of the solution values of the member cells.
RECURSIVE TargetSum(_, _)
TargetSum(gr, cellIndices) ==
    IF cellIndices = <<>> THEN 0
    ELSE gr[Head(cellIndices)].value + TargetSum(gr, Tail(cellIndices))

\* The two maximal cage sizes exchanged.
MaxCageSizeOfSwapped(d) == IF d = S_MEDIUM THEN 5 ELSE 3

MaxCageSizeOf(d) == IF d = S_MEDIUM THEN 3 ELSE 5

\* A target size drawn from 1..maxCageSize+1.
DrawTargetSizeOff(out, mcs) == (out % (mcs + 1)) + 1

\* int targetSize = (rng() % maxCageSize) + 1, from the generator output out.
DrawTargetSize(out, mcs) == (out % mcs) + 1

\* An id counter that is not incremented.
NextCageIDSame(id) == id

\* newCage.id = currentCageID++: the value of the counter after the statement.
NextCageID(id) == id + 1

\* Entry of GenerateCages: the locals and the shuffle of the 81 indices.
CagesBegin(mcs) ==
    LET sh == Shuffle(ZeroTo80, rng)
    IN /\ maxCageSize' = mcs
       /\ currentCageID' = 0
       /\ indices' = sh.out
       /\ rng' = sh.gen
       /\ pos' = 1
       /\ pc' = "seed"
       /\ UNCHANGED <<grid, cages, hudVars, g, diff, solveVars, newCage,
                      targetSize, step, saved, restarted, updates>>

GenerateCages ==
    /\ pc = "GenerateCages"
    /\ CagesBegin(MaxCageSizeOf(diff))

\* One pass of `for (int idx : indices)` up to the growth loop: the end of
\* the range, the `continue` for a cell already in a cage, or a new cage
\* seeded at idx with its target size drawn.
CageSeed ==
    /\ pc = "seed"
    /\ IF pos > Len(indices)
       THEN /\ pc' = "GenerateCagesReturned"
            /\ UNCHANGED <<grid, rng, currentCageID, pos, newCage, targetSize, step>>
       ELSE LET idx == indices[pos]
            IN IF grid[idx].cageID # -1
               THEN /\ pos' = pos + 1
                    /\ UNCHANGED <<grid, rng, currentCageID, newCage, targetSize, step, pc>>
               ELSE /\ newCage' = [id |-> currentCageID, targetSum |-> 0,
                                   cellIndices |-> <<idx>>]
                    /\ currentCageID' = NextCageID(currentCageID)
                    /\ grid' = [grid EXCEPT ![idx].cageID = currentCageID]
                    /\ targetSize' = DrawTargetSize(RngOut(rng), maxCageSize)
                    /\ rng' = RngAdvance(rng)
                    /\ step' = 0
                    /\ pc' = "grow"
                    /\ UNCHANGED pos
    /\ UNCHANGED <<cages, hudVars, g, diff, solveVars, maxCageSize, indices, saved, restarted,
                   updates>>

\* One pass of `for (step = 0; step < targetSize - 1; step++)`: a neighbour
\* drawn from `neighbors` joins the cage; the loop ends when step reaches
\* targetSize - 1 or on `break` when there is no neighbour.
CageGrow ==
    /\ pc = "grow"
    /\ LET neighbors == Neighbors(grid, newCage.cellIndices)
       IN IF step < targetSize - 1 /\ neighbors # <<>>
          THEN LET nextCell == neighbors[(RngOut(rng) % Len(neighbors)) + 1]
               IN /\ newCage' = [newCage EXCEPT !.cellIndices = Append(@, nextCell)]
                  /\ grid' = [grid EXCEPT ![nextCell].cageID = newCage.id]
                  /\ rng' = RngAdvance(rng)
                  /\ step' = step + 1
                  /\ UNCHANGED pc
          ELSE /\ pc' = "emit"
               /\ UNCHANGED <<grid, rng, newCage, step>>
    /\ UNCHANGED <<cages, hudVars, g, diff, solveVars, maxCageSize, currentCageID,
                   indices, pos, targetSize, saved, restarted, updates>>

\* The target sum of the finished cage and cages.push_back(newCage).
CageEmit ==
    /\ pc = "emit"
    /\ LET done == [newCage EXCEPT !.targetSum = TargetSum(grid, newCage.cellIndices)]
       IN /\ newCage' = done
          /\ cages' = Append(cages, done)
    /\ pos' = pos + 1
    /\ pc' = "seed"
    /\ UNCHANGED <<grid, hudVars, rng, g, diff, solveVars, maxCageSize, currentCageID,
                   indices, targetSize, step, saved, restarted, updates>>

\* ------------------------------------------------- StartGame, last part
ClearInputs(gr) ==
    [i \in Cells |-> [gr[i] EXCEPT !.currentInput = 0, !.isError = FALSE, !.isFixed = FALSE]]

RevealCount == 10

\* The reveal loop marking the cell fixed without copying its value.
RECURSIVE RevealFromNoInput(_, _, _)
RevealFromNoInput(gr, k, s) ==
    IF k >= RevealCount THEN [grid |-> gr, gen |-> s]
    ELSE RevealFromNoInput([gr EXCEPT ![RngOut(s) % 81].isFixed = TRUE],
                           k + 1, RngAdvance(s))

\* for (k = 0; k < 10; k++): idx = g() % 81 is revealed and fixed.
RECURSIVE RevealFrom(_, _, _)
RevealFrom(gr, k, s) ==
    IF k >= RevealCount THEN [grid |-> gr, gen |-> s]
    ELSE LET idx == RngOut(s) % 81
         IN RevealFrom([gr EXCEPT ![idx].currentInput = gr[idx].value,
                                  ![idx].isFixed = TRUE],
                       k + 1, RngAdvance(s))

\* StartGame after GenerateCages returned: the inputs are cleared and, for
\* S_MEDIUM, ten cells are revealed; StartGame returns and its locals and
\* those of the functions it called are gone.
Reveal ==
    /\ pc = "GenerateCagesReturned"
    /\ LET cleared == ClearInputs(grid)
           revealed == IF diff = S_MEDIUM THEN RevealFrom(cleared, 0, g)
                       ELSE [grid |-> cleared, gen |-> g]
       IN grid' = revealed.grid
    /\ pc' = "idle"
    /\ g' = 0
    /\ callIndex' = 0
    /\ stack' = <<>>
    /\ retval' = FALSE
    /\ entryValues' = NoValues
    /\ maxCageSize' = 0
    /\ currentCageID' = 0
    /\ indices' = <<>>
    /\ pos' = 0
    /\ newCage' = NoCage
    /\ targetSize' = 0
    /\ step' = 0
    /\ UNCHANGED <<cages, hudVars, rng, diff, saved, restarted, updates>>

\* ---------------------------------------------------------------- Update
KEY_NULL == 0
KEY_ONE == 49
KEY_NINE == 57
KEY_KP_1 == 321
KEY_KP_9 == 329
KEY_BACKSPACE == 259
KEY_DELETE == 261
KEY_RIGHT == 262
KEY_LEFT == 263
KEY_DOWN == 264
KEY_UP == 265

\* The inputs of one frame: the key returned by GetKeyPressed, the mouse
\* (pressed or not, and its position in pixels) and the frame time in
\* milliseconds (half a second, so that the timer ticks every second frame).
Keys == {KEY_NULL, KEY_ONE + 4, KEY_KP_9, KEY_BACKSPACE, KEY_DELETE,
         KEY_RIGHT, KEY_LEFT, KEY_DOWN, KEY_UP}
MousePositions == {<<400, 275>>, <<150, 75>>, <<60, 565>>}
FrameTimes == {500}

\* Conversion of a float quotient to int: truncation toward zero.
TruncDiv(a, b) == IF a >= 0 THEN a \div b ELSE -((-a) \div b)

\* CheckErrors that, for a wrong input, also writes the input over the
\* solution value.
CheckErrorsClobber(gr) ==
    [i \in Cells |->
        IF gr[i].currentInput # 0 /\ gr[i].currentInput # gr[i].value
        THEN [gr[i] EXCEPT !.isError = TRUE, !.value = gr[i].currentInput]
        ELSE [gr[i] EXCEPT !.isError = FALSE]]

\* CheckErrors without the first loop that resets every flag.
CheckErrorsNoReset(gr) ==
    [i \in Cells |->
        [gr[i] EXCEPT !.isError = (gr[i].isError
                                   \/ (gr[i].currentInput # 0
                                       /\ gr[i].currentInput # gr[i].value))]]

CheckErrors(gr) ==
    [i \in Cells |->
        [gr[i] EXCEPT !.isError = (gr[i].currentInput # 0
                                   /\ gr[i].currentInput # gr[i].value)]]

CheckWinCondition(gr) == \A i \in Cells : gr[i].currentInput = gr[i].value

\* The members Update reads and writes, and the count of the scores saved.
Play ==
    [grid |-> grid, selectedIndex |-> selectedIndex, timer |-> timer,
     timeAccumulator |-> timeAccumulator, isComplete |-> isComplete,
     score |-> score, saved |-> saved]

\* Guards of Update that let a finished game go on.
UpdateRunsWhenWon(st) == isActive

\* if (!isActive) return; if (isComplete) return;
UpdateRuns(st) == isActive /\ ~st.isComplete

\* One call of Update on the members st, with the inputs of the frame.
UpdateOf(st, pressed, mousePos, key, frameTime) ==
    IF ~UpdateRuns(st) THEN st
    ELSE
    LET acc == st.timeAccumulator + frameTime
        timer1 == IF acc >= 1000 THEN st.timer + 1 ELSE st.timer
        gridX == TruncDiv(mousePos[1] - GRID_OFFSET_X, CELL_SIZE)
        gridY == TruncDiv(mousePos[2] - GRID_OFFSET_Y, CELL_SIZE)
        idx == gridY * 9 + gridX
        sel1 == IF pressed
                THEN IF gridX >= 0 /\ gridX < 9 /\ gridY >= 0 /\ gridY < 9
                        /\ ~st.grid[idx].isFixed
                     THEN idx ELSE -1
                ELSE st.selectedIndex
        num0 == IF key >= KEY_ONE /\ key <= KEY_NINE THEN key - KEY_ONE + 1 ELSE -1
        num == IF key >= KEY_KP_1 /\ key <= KEY_KP_9 THEN key - KEY_KP_1 + 1 ELSE num0
        entered == sel1 # -1 /\ num # -1
        grid1 == IF entered
                 THEN CheckErrors([st.grid EXCEPT ![sel1].currentInput = num])
                 ELSE st.grid
        won == entered /\ CheckWinCondition(grid1)
        grid2 == IF sel1 # -1 /\ (key = KEY_BACKSPACE \/ key = KEY_DELETE)
                 THEN [grid1 EXCEPT ![sel1].currentInput = 0, ![sel1].isError = FALSE]
                 ELSE grid1
        up == IF key = KEY_UP /\ sel1 >= 9 THEN sel1 - 9 ELSE sel1
        down == IF key = KEY_DOWN /\ up < 72 THEN up + 9 ELSE up
        left == IF key = KEY_LEFT /\ down % 9 # 0 THEN down - 1 ELSE down
        right == IF key = KEY_RIGHT /\ left % 9 # 8 THEN left + 1 ELSE left
    IN [grid |-> grid2,
        selectedIndex |-> IF sel1 # -1 THEN right ELSE sel1,
        timer |-> timer1,
        timeAccumulator |-> IF acc >= 1000 THEN acc - 1000 ELSE acc,
        isComplete |-> (st.isComplete \/ won),
        score |-> IF won THEN 10000 \div (timer1 + 1) ELSE st.score,
        saved |-> IF won THEN st.saved + 1 ELSE st.saved]

\* The members take the values of st.
Played(st) ==
    /\ grid' = st.grid
    /\ selectedIndex' = st.selectedIndex
    /\ timer' = st.timer
    /\ timeAccumulator' = st.timeAccumulator
    /\ isComplete' = st.isComplete
    /\ score' = st.score
    /\ saved' = st.saved

\* A call of Update that passes its guards.
Update(pressed, mousePos, key, frameTime) ==
    /\ pc = "idle"
    /\ UpdateRuns(Play)
    /\ updates < MaxUpdates
    /\ updates' = updates + 1
    /\ Played(UpdateOf(Play, pressed, mousePos, key, frameTime))
    /\ UNCHANGED <<cages, isActive, rng, g, diff, pc, solveVars, genVars, restarted>>

\* ---------------------------------------------------- Draw, ReturnToMenu
ReturnToMenu ==
    /\ pc = "idle"
    /\ isActive' = FALSE
    /\ UNCHANGED <<grid, cages, selectedIndex, score, timer, timeAccumulator,
                   isComplete, rng, g, diff, pc, solveVars, genVars, saved,
                   restarted, updates>>

\* The MENU button is the rectangle {20, 550, 80, 30}.
OnBackButton(mousePos) ==
    /\ mousePos[1] >= 20 /\ mousePos[1] < 20 + 80
    /\ mousePos[2] >= 550 /\ mousePos[2] < 550 + 30

\* Draw changes the state only through ReturnToMenu, on a press of the
\* MENU button while the game is active.
Draw(pressed, mousePos) ==
    /\ pc = "idle"
    /\ isActive
    /\ pressed
    /\ OnBackButton(mousePos)
    /\ ReturnToMenu

Next ==
    \/ \E d \in SudokuDifficulty, s1 \in Seeds, s2 \in Seeds : StartGame(d, s1, s2)
    \/ FillDiagonal
    \/ SolveCall
    \/ SolveFor
    \/ SolveReturn
    \/ SolveDone
    \/ GenerateCages
    \/ CageSeed
    \/ CageGrow
    \/ CageEmit
    \/ Reveal
    \/ \E pressed \in BOOLEAN, mousePos \in MousePositions, key \in Keys,
          frameTime \in FrameTimes : Update(pressed, mousePos, key, frameTime)
    \/ \E pressed \in BOOLEAN, mousePos \in MousePositions : Draw(pressed, mousePos)
    \/ ReturnToMenu

\* The partitioning algorithm of GenerateCages run on the grid the solver
\* produced, with a maximal cage size that is a parameter of the run instead
\* of the 3 or 5 of the two difficulties.
PartitionSizes == {1, 2, 4}

Partition(mcs) ==
    /\ pc = "GenerateCages"
    /\ CagesBegin(mcs)

NextPartition ==
    \/ \E d \in SudokuDifficulty, s1 \in Seeds, s2 \in Seeds : StartGame(d, s1, s2)
    \/ FillDiagonal
    \/ SolveCall
    \/ SolveFor
    \/ SolveReturn
    \/ SolveDone
    \/ \E mcs \in PartitionSizes : Partition(mcs)
    \/ CageSeed
    \/ CageGrow
    \/ CageEmit

SpecPartition == Init /\ [][NextPartition]_vars

\* The game with the history of restarts recorded.
NextRestart ==
    \/ \E d \in SudokuDifficulty, s1 \in Seeds, s2 \in Seeds : StartGameAgain(d, s1, s2)
    \/ FillDiagonal
    \/ SolveCall
    \/ SolveFor
    \/ SolveReturn
    \/ SolveDone
    \/ GenerateCages
    \/ CageSeed
    \/ CageGrow
    \/ CageEmit
    \/ Reveal
    \/ \E pressed \in BOOLEAN, mousePos \in MousePositions, key \in Keys,
          frameTime \in FrameTimes : Update(pressed, mousePos, key, frameTime)
    \/ \E pressed \in BOOLEAN, mousePos \in MousePositions : Draw(pressed, mousePos)
    \/ ReturnToMenu

SpecRestart == Init /\ [][NextRestart]_vars

Spec == Init /\ [][Next]_vars

\* ------------------------------------------------- a game played to its end
\* The centre of cell c on the screen.
CellCenter(c) ==
    <<GRID_OFFSET_X + (c % 9) * CELL_SIZE + CELL_SIZE \div 2,
      GRID_OFFSET_Y + (c \div 9) * CELL_SIZE + CELL_SIZE \div 2>>

\* The key of digit n in the number row.
DigitKey(n) == KEY_ONE + n - 1

\* The cell the player fills last: the cell under the mouse position
\* <<400, 275>>.
LastCell == 40

\* The cells the player still has to fill before the last one.
ToFill == {c \in Cells \ {LastCell} : ~grid[c].isFixed /\ grid[c].currentInput = 0}

\* A call of Update in which the player clicks the first cell still to fill
\* and types its solution digit.
PlayCell(frameTime) ==
    /\ pc = "idle"
    /\ cages # <<>>
    /\ UpdateRuns(Play)
    /\ updates = 0
    /\ ToFill # {}
    /\ LET c == Min(ToFill)
       IN Played(UpdateOf(Play, TRUE, CellCenter(c), DigitKey(grid[c].value), frameTime))
    /\ UNCHANGED <<cages, isActive, rng, g, diff, pc, solveVars, genVars, restarted, updates>>

\* The inputs of the frames that follow: a click on the last cell or on the
\* MENU button, and any digit, no key, or backspace.
WinMouse == {CellCenter(LastCell), <<60, 565>>}
WinKeys == {KEY_NULL, KEY_BACKSPACE} \cup {DigitKey(n) : n \in Digits}

\* Update once only the last cell is left.
LastUpdate(pressed, mousePos, key, frameTime) ==
    /\ ToFill = {}
    /\ Update(pressed, mousePos, key, frameTime)

NextWin ==
    \/ \E d \in SudokuDifficulty, s1 \in Seeds, s2 \in Seeds : StartGame(d, s1, s2)
    \/ FillDiagonal
    \/ SolveCall
    \/ SolveFor
    \/ SolveReturn
    \/ SolveDone
    \/ GenerateCages
    \/ CageSeed
    \/ CageGrow
    \/ CageEmit
    \/ Reveal
    \/ \E frameTime \in FrameTimes : PlayCell(frameTime)
    \/ \E pressed \in BOOLEAN, mousePos \in WinMouse, key \in WinKeys,
          frameTime \in FrameTimes : LastUpdate(pressed, mousePos, key, frameTime)
    \/ \E pressed \in BOOLEAN, mousePos \in WinMouse : Draw(pressed, mousePos)
    \/ ReturnToMenu

SpecWin == Init /\ [][NextWin]_vars

\* StartGame is one sequential function: the statements of the loops of
\* GenerateCages are executed one after the other until the function returns.
CagesStep == CageSeed \/ CageGrow \/ CageEmit

SpecTermination == Init /\ [][Next]_vars /\ WF_vars(CagesStep)

\* ======================================================== properties
\* StartGame has returned at least once and no StartGame is running.
Ready == pc = "idle" /\ cages # <<>>

\* GenerateCages has returned (StartGame may still have to clear the inputs).
CagesDone == pc = "GenerateCagesReturned" \/ Ready

Row(i) == i \div 9
Col(i) == i % 9
Box(i) == (Row(i) \div 3) * 3 + (Col(i) \div 3)
RowCells(r) == {i \in Cells : Row(i) = r}
ColCells(c) == {i \in Cells : Col(i) = c}
BoxCells(b) == {i \in Cells : Box(i) = b}
Units == {RowCells(u) : u \in 0..8} \cup {ColCells(u) : u \in 0..8}
            \cup {BoxCells(u) : u \in 0..8}
ValuesIn(gr, U) == {gr[i].value : i \in U}

GridValid(gr) ==
    /\ \A i \in Cells : gr[i].value \in Digits
    /\ \A U \in Units : ValuesIn(gr, U) = Digits

\* C1 (grid validity): once StartGame has returned, all 81 cells hold a
\* digit 1..9 and every row, column and 3x3 box holds each digit exactly once
\* (nine cells whose values are all of 1..9).
C1_GridValidity == Ready => GridValid(grid)

\* StartGame has just returned with a valid grid.
C1_Witness == Ready /\ updates = 0 /\ isActive /\ GridValid(grid)

\* All member lists of a cage list, one after the other.
RECURSIVE AllMembers(_)
AllMembers(cs) ==
    IF cs = <<>> THEN <<>> ELSE Head(cs).cellIndices \o AllMembers(Tail(cs))

Range(q) == {q[j] : j \in 1..Len(q)}

\* C2 (partition totality): after GenerateCages every cell index 0..80 is
\* listed by exactly one cage, exactly once (the member lists hold 81
\* entries in all and every cell is among them), and no cell keeps cageID -1.
C2_PartitionTotality ==
    CagesDone => /\ Len(AllMembers(cages)) = 81
                 /\ Range(AllMembers(cages)) = Cells
                 /\ \A i \in Cells : grid[i].cageID # -1

C2_Witness ==
    /\ pc = "GenerateCagesReturned"
    /\ Len(AllMembers(cages)) = 81
    /\ Range(AllMembers(cages)) = Cells
    /\ \E k \in 1..Len(cages) : Len(cages[k].cellIndices) > 1

\* Two cells next to each other in a row or in a column of the 9x9 board.
Adjacent(a, b) ==
    \/ Row(a) = Row(b) /\ (Col(a) - Col(b) = 1 \/ Col(b) - Col(a) = 1)
    \/ Col(a) = Col(b) /\ (Row(a) - Row(b) = 1 \/ Row(b) - Row(a) = 1)

\* Flood fill inside S from the set R.
RECURSIVE Flood(_, _)
Flood(S, R) ==
    LET more == {b \in S \ R : \E a \in R : Adjacent(a, b)}
    IN IF more = {} THEN R ELSE Flood(S, R \cup more)

EdgeConnected(S) == S # {} /\ \A a \in S : Flood(S, {a}) = S

\* C3 (connectivity): every cage of the list is non-empty and edge-connected
\* on the board (no step from the end of a row to the start of the next).
C3_Connectivity ==
    \A k \in 1..Len(cages) : EdgeConnected(Range(cages[k].cellIndices))

\* A finished game with a cage of at least three cells that turns a corner.
C3_Witness ==
    /\ CagesDone
    /\ \E k \in 1..Len(cages) :
          LET S == Range(cages[k].cellIndices)
          IN /\ Cardinality(S) >= 3
             /\ EdgeConnected(S)
             /\ \E a, b \in S : Row(a) # Row(b) /\ Col(a) # Col(b)

\* C4 (size bound): every cage has between 1 and maxCageSize cells, 3 for
\* S_MEDIUM and 5 for S_HARD.
C4_SizeBound ==
    CagesDone => \A k \in 1..Len(cages) :
        /\ Len(cages[k].cellIndices) >= 1
        /\ diff = S_MEDIUM => Len(cages[k].cellIndices) <= 3
        /\ diff = S_HARD => Len(cages[k].cellIndices) <= 5

\* Both difficulties reach their largest cage size.
C4_Witness ==
    /\ CagesDone
    /\ diff = S_HARD
    /\ \E k \in 1..Len(cages) : Len(cages[k].cellIndices) = 5
    /\ \E k \in 1..Len(cages) : Len(cages[k].cellIndices) = 1

\* The sum of the solution digits over a set of cells.
RECURSIVE SumValues(_, _)
SumValues(gr, S) ==
    IF S = {} THEN 0
    ELSE LET i == CHOOSE x \in S : TRUE
         IN gr[i].value + SumValues(gr, S \ {i})

\* C5 (sum consistency, no drift): in every state after StartGame returned,
\* also after Update steps, each cage's targetSum is the sum of grid[i].value
\* over its cells.
C5_SumConsistency ==
    Ready => \A k \in 1..Len(cages) :
        cages[k].targetSum = SumValues(grid, Range(cages[k].cellIndices))

\* A digit was typed into a cell and the sums still agree.
C5_Witness ==
    /\ Ready
    /\ updates = MaxUpdates
    /\ \E i \in Cells : ~grid[i].isFixed /\ grid[i].currentInput # 0
    /\ \A k \in 1..Len(cages) :
          cages[k].targetSum = SumValues(grid, Range(cages[k].cellIndices))

\* C6 as claimed (single-digit sums): a cage of 2 or more cells never has a
\* targetSum in 1..9.
C6_NoSingleDigitSum ==
    CagesDone => \A k \in 1..Len(cages) :
        Len(cages[k].cellIndices) >= 2 => cages[k].targetSum \notin 1..9

\* C6 as amended: a cage of 2 or more cells has a targetSum of at least 3
\* (two cells next to each other share a row or a column and so differ) and
\* of at most 9 per cell, 17 for two cells; sums in 3..9 do occur.
C6_SumRange ==
    CagesDone => \A k \in 1..Len(cages) :
        LET n == Len(cages[k].cellIndices)
        IN n >= 2 => /\ cages[k].targetSum >= 3
                     /\ cages[k].targetSum <= 9 * n
                     /\ n = 2 => cages[k].targetSum <= 17

\* A cage of two cells whose sum is a single digit, and one of three.
C6_Witness ==
    /\ CagesDone
    /\ \E k \in 1..Len(cages) :
          Len(cages[k].cellIndices) = 2 /\ cages[k].targetSum \in 3..9
    /\ \E k \in 1..Len(cages) :
          Len(cages[k].cellIndices) >= 3 /\ cages[k].targetSum \in 3..9

\* The cells that share a row, a column or a box with cell i.
Peers(i) == {j \in Cells \ {i} : Row(j) = Row(i) \/ Col(j) = Col(i) \/ Box(j) = Box(i)}

\* No two filled cells of a row, column or box hold the same digit.
Consistent(gr) ==
    \A i \in Cells : gr[i].value # 0 =>
        \A j \in Peers(i) : gr[j].value # gr[i].value

\* Some assignment of digits to the cells of E, one after the other, keeps
\* the rows, columns and boxes free of duplicates.
RECURSIVE Completable(_, _)
Completable(gr, E) ==
    IF E = {} THEN TRUE
    ELSE LET c == CHOOSE x \in E : \A y \in E : x <= y
         IN \E n \in Digits :
               /\ \A j \in Peers(c) : gr[j].value # n
               /\ Completable([gr EXCEPT ![c].value = n], E \ {c})

\* The empty cells at positions >= index can be given digits that satisfy
\* row, column and box uniqueness together with the filled cells.
CompletionExists(gr, index) ==
    /\ Consistent(gr)
    /\ Completable(gr, {i \in index..80 : gr[i].value = 0})

\* C7 (solver completeness): a call GenerateFullSolution(index) that returns
\* false leaves a grid that has no completion from index on; since every
\* call returns, a call returns true whenever a completion exists.
C7_SolverCompleteness ==
    (pc = "return" /\ ~retval) => ~CompletionExists(grid, callIndex)

\* A call returned false although a digit was safe at its cell: the digits
\* it placed all led to dead ends further on.
C7_Witness ==
    /\ pc = "return"
    /\ ~retval
    /\ grid[callIndex].value = 0
    /\ \E n \in Digits : IsSafe(grid, callIndex, n)
    /\ ~CompletionExists(grid, callIndex)

\* C8 (minimal cage size): the partition with maxCageSize = 1 yields 81
\* cages of one cell each, each with the solution digit of its cell as
\* targetSum.
C8_MinimalCageSize ==
    (pc = "GenerateCagesReturned" /\ maxCageSize = 1) =>
        /\ Len(cages) = 81
        /\ \A k \in 1..81 :
              /\ Len(cages[k].cellIndices) = 1
              /\ cages[k].targetSum = grid[cages[k].cellIndices[1]].value
        /\ {cages[k].cellIndices[1] : k \in 1..81} = Cells

C8_Witness ==
    /\ pc = "GenerateCagesReturned"
    /\ maxCageSize = 1
    /\ Len(cages) = 81
    /\ GridValid(grid)

\* The cells next to cell a on the board.
AdjacentCells(a) == {b \in Cells : Adjacent(a, b)}

\* While a cage is being built only its own cells leave the unassigned
\* cells, so the cells around a that were unassigned when the cage was seeded
\* are those that are unassigned now or are in the cage.
FreeAtSeeding(a) ==
    {b \in AdjacentCells(a) : grid[b].cageID = -1 \/ grid[b].cageID = newCage.id}

\* The growth loop of a cage has ended: its seed had exactly one unassigned
\* neighbour and the drawn target size was 4.
OneNeighbourSeed ==
    /\ pc = "emit"
    /\ targetSize = 4
    /\ Cardinality(FreeAtSeeding(newCage.cellIndices[1])) = 1

\* C9 as claimed (boundary growth truncation): such a cage stops at size 2.
C9_StopsAtTwo == OneNeighbourSeed => Len(newCage.cellIndices) = 2

\* C9 as amended: such a cage takes the one neighbour; it stops at size 2
\* exactly when that neighbour had no unassigned neighbour of its own (the
\* candidates are the unassigned cells next to any member), and otherwise
\* grows on, up to 4 cells; it ends below 4 only when no unassigned cell is
\* next to any member.
C9_TruncatedGrowth ==
    OneNeighbourSeed =>
        LET n == Len(newCage.cellIndices)
            seed == newCage.cellIndices[1]
        IN /\ n >= 2 /\ n <= 4
           /\ newCage.cellIndices[2] \in AdjacentCells(seed)
           /\ n = 2 <=> FreeAtSeeding(newCage.cellIndices[2]) \ {seed} = {}
           /\ n < 4 => \A a \in Range(newCage.cellIndices) :
                           \A b \in AdjacentCells(a) : grid[b].cageID # -1

\* Such a cage that did stop at the seed and its one neighbour.
C9_Witness == OneNeighbourSeed /\ Len(newCage.cellIndices) = 2

FixedCells == {i \in Cells : grid[i].isFixed}

\* C10 (revealed cells): right after StartGame(S_MEDIUM) between 1 and 10
\* cells are fixed, the fixed cells show their value and the others are
\* empty; right after StartGame(S_HARD) no cell is fixed and all are empty.
C10_RevealedCells ==
    (Ready /\ updates = 0) =>
        /\ diff = S_MEDIUM =>
              /\ Cardinality(FixedCells) >= 1
              /\ Cardinality(FixedCells) <= 10
              /\ \A i \in Cells :
                    grid[i].currentInput = IF grid[i].isFixed THEN grid[i].value ELSE 0
        /\ diff = S_HARD =>
              /\ FixedCells = {}
              /\ \A i \in Cells : grid[i].currentInput = 0

\* A medium game in which two of the ten draws hit the same cell.
C10_Witness ==
    /\ Ready
    /\ updates = 0
    /\ diff = S_MEDIUM
    /\ Cardinality(FixedCells) \in 1..9
    /\ \A i \in FixedCells : grid[i].currentInput = grid[i].value /\ grid[i].value # 0

\* C11 (fixed cells): after StartGame, whatever Update steps follow, every
\* fixed cell keeps currentInput equal to its solution value and
\* selectedIndex never designates a fixed cell.
C11_FixedCellsProtected ==
    Ready => /\ \A i \in Cells : grid[i].isFixed => grid[i].currentInput = grid[i].value
             /\ selectedIndex # -1 => ~grid[selectedIndex].isFixed

\* The first half of C11 alone: the input of a fixed cell is never changed.
FixedInputsKept ==
    Ready => \A i \in Cells : grid[i].isFixed => grid[i].currentInput = grid[i].value

\* The generated puzzle: the solution digit and the cage of every cell.
Puzzle(gr) == [i \in Cells |-> <<gr[i].value, gr[i].cageID>>]

\* C12 (session immutability): a step of Update, Draw or ReturnToMenu (the
\* steps from "idle" to "idle") changes no cell's value or cageID and leaves
\* the cages list as it is; only StartGame changes them.
C12_SessionImmutability ==
    [][(pc = "idle" /\ pc' = "idle") =>
          (Puzzle(grid') = Puzzle(grid) /\ cages' = cages)]_vars

\* A wrong digit was typed and the player went back to the menu.
C12_Witness ==
    /\ Ready
    /\ ~isActive
    /\ updates = MaxUpdates
    /\ \E i \in Cells : grid[i].isError /\ grid[i].currentInput # grid[i].value
    /\ GridValid(grid)

\* C13 (rebuild on restart): after every StartGame, a first one or one that
\* follows earlier games, the cages list holds the cages of this generation
\* only: ClearGrid left no cell value, cageID or cage behind, and the grid is
\* valid, the cages partition the 81 cells, no cage exceeds the size bound
\* of the current difficulty and every cageID is the id of the cage that
\* lists the cell.
C13_RebuildOnRestart ==
    /\ pc = "StartGame" =>
          /\ cages = <<>>
          /\ \A i \in Cells : grid[i].value = 0 /\ grid[i].cageID = -1
    /\ CagesDone =>
          /\ GridValid(grid)
          /\ Len(AllMembers(cages)) = 81
          /\ Range(AllMembers(cages)) = Cells
          /\ \A k \in 1..Len(cages) :
                /\ Len(cages[k].cellIndices) <= (IF diff = S_MEDIUM THEN 3 ELSE 5)
                /\ \A i \in Range(cages[k].cellIndices) : grid[i].cageID = cages[k].id
                /\ \A m \in 1..Len(cages) : cages[m].id = cages[k].id => m = k

\* A game generated by a StartGame that followed an earlier game.
C13_Witness ==
    /\ Ready
    /\ restarted
    /\ updates = 0
    /\ Len(AllMembers(cages)) = 81
    /\ GridValid(grid)

\* C14 (error flags track the solution): whenever StartGame has returned and
\* no Update is running, a cell's isError is true exactly when its
\* currentInput is non-zero and differs from its value.
C14_ErrorFlags ==
    Ready => \A i \in Cells :
                grid[i].isError <=> (grid[i].currentInput # 0
                                     /\ grid[i].currentInput # grid[i].value)

\* After the Updates of a game a wrong digit carries its flag and an empty
\* cell carries none.
C14_Witness ==
    /\ Ready
    /\ updates = MaxUpdates
    /\ \E i \in Cells : grid[i].isError /\ grid[i].currentInput # grid[i].value
    /\ \E i \in Cells : ~grid[i].isError /\ grid[i].currentInput = 0

\* C15 (place/undo contract of the solver): no call of GenerateFullSolution,
\* active or just returned, has changed a cell whose value was non-zero
\* when the call was entered, and when a call has returned false every cell
\* has the value it had when that call was entered.
SolverRuns == pc \in {"GenerateFullSolution", "for", "return"}

KeepsFilled(entry) == \A c \in Cells : entry[c] # 0 => grid[c].value = entry[c]

C15_PlaceUndo ==
    /\ SolverRuns => \A d \in 1..Len(stack) : KeepsFilled(stack[d].entry)
    /\ pc = "return" => KeepsFilled(entryValues)
    /\ (pc = "return" /\ ~retval) => Values(grid) = entryValues

\* A call has returned false to its caller: its cell is empty again and
\* pre-filled cells lie behind it.
C15_Witness ==
    /\ pc = "return"
    /\ ~retval
    /\ stack # <<>>
    /\ grid[callIndex].value = 0
    /\ \E c \in Cells : c > callIndex /\ grid[c].value # 0

\* The unassigned cells next to some member of the cage being built.
FreeAround == {b \in Cells : /\ grid[b].cageID = -1
                             /\ \E a \in Range(newCage.cellIndices) : Adjacent(a, b)}

\* C16 (growth stops early only for lack of candidates): when the growth
\* loop of a cage ends below the drawn target size, no unassigned cell is
\* next to any member; while the target size is not reached and such a cell
\* exists, the step adds exactly one of them to the cage and gives it the
\* cage's id, and no other cell changes.
C16_EarlyStop ==
    [][(pc = "grow" /\ Len(newCage.cellIndices) < targetSize) =>
          IF FreeAround = {}
          THEN pc' = "emit" /\ newCage' = newCage /\ grid' = grid
          ELSE /\ pc' = "grow"
               /\ \E b \in FreeAround :
                     /\ newCage'.cellIndices = Append(newCage.cellIndices, b)
                     /\ grid' = [grid EXCEPT ![b].cageID = newCage.id]]_vars

\* A cage that grew and then ended below its target size.
C16_Witness ==
    /\ pc = "emit"
    /\ Len(newCage.cellIndices) >= 2
    /\ Len(newCage.cellIndices) < targetSize

\* GenerateCages is between its shuffle and its return.
CagesRun == pc \in {"seed", "grow", "emit"}

\* C17 (partition termination): the loops of GenerateCages end and the
\* function returns; while it runs, indices is a permutation of the 81 cells that the range-for
\* walks once from front to back, there is at most one cage per index
\* visited (so at most 81) and a cage takes at most maxCageSize - 1 growth
\* steps.
C17_PartitionTermination ==
    /\ [](CagesRun =>
            /\ Len(indices) = 81
            /\ Range(indices) = Cells
            /\ pos >= 1 /\ pos <= 82
            /\ Len(cages) <= pos - 1
            /\ currentCageID <= pos
            /\ pc = "seed" => currentCageID = Len(cages)
            /\ pc # "seed" => /\ step <= targetSize - 1
                              /\ targetSize <= maxCageSize
                              /\ step = Len(newCage.cellIndices) - 1)
    /\ [][(CagesRun /\ CagesRun') => /\ indices' = indices
                                     /\ pos' = IF pc' = "seed" THEN pos + 1 ELSE pos]_vars
    /\ CagesRun ~> (pc = "GenerateCagesReturned")

\* GenerateCages has returned with fewer than 81 cages, one of them grown
\* by maxCageSize - 1 steps.
C17_Witness ==
    /\ pc = "GenerateCagesReturned"
    /\ pos = 82
    /\ Len(cages) < 81
    /\ \E k \in 1..Len(cages) : Len(cages[k].cellIndices) = maxCageSize

\* The cages that list cell i.
CagesOf(i) == {k \in 1..Len(cages) : i \in Range(cages[k].cellIndices)}

\* C18 (cage identifiers are fresh and consistent with the grid): after
\* GenerateCages the k-th cage created (counting from 0) has id k, so the ids
\* are pairwise distinct, and every cell is listed by exactly one cage,
\* whose id is the cell's cageID.
C18_CageIds ==
    CagesDone =>
        /\ \A k \in 1..Len(cages) : cages[k].id = k - 1
        /\ \A i \in Cells :
              /\ Cardinality(CagesOf(i)) = 1
              /\ \A k \in CagesOf(i) : grid[i].cageID = cages[k].id

\* GenerateCages has returned; a cage created after the first one has
\* several cells, and they carry its id.
C18_Witness ==
    /\ pc = "GenerateCagesReturned"
    /\ \E k \in 2..Len(cages) :
          /\ cages[k].id = k - 1
          /\ Len(cages[k].cellIndices) > 1
          /\ \A i \in Range(cages[k].cellIndices) : grid[i].cageID = k - 1

\* CheckWinCondition holds of the grid.
AllCorrect(gr) == \A i \in Cells : gr[i].currentInput = gr[i].value

Inputs(gr) == [i \in Cells |-> <<gr[i].currentInput, gr[i].isError>>]

\* C19 (win is detected once and freezes play): between handler calls,
\* isComplete becomes true exactly in the step in which the inputs come to
\* equal the values in all 81 cells; that step sets score to
\* 10000 / (timer + 1) and saves it; from then on, until StartGame, no step
\* changes currentInput, isError, selectedIndex, timer or score or saves
\* again, so a game saves its score at most once.
C19_WinFreeze ==
    /\ [](saved <= 1)
    /\ [](Ready => (isComplete <=> AllCorrect(grid)) /\ (isComplete <=> saved = 1))
    /\ [][(pc = "idle" /\ pc' = "idle") =>
            /\ (~isComplete /\ isComplete') <=> (~AllCorrect(grid) /\ AllCorrect(grid'))
            /\ (~isComplete /\ isComplete') =>
                  /\ score' = 10000 \div (timer' + 1)
                  /\ saved' = saved + 1
            /\ isComplete =>
                  /\ isComplete'
                  /\ Inputs(grid') = Inputs(grid)
                  /\ selectedIndex' = selectedIndex
                  /\ timer' = timer
                  /\ score' = score
                  /\ saved' = saved]_vars

\* A game won by a single digit entry with Update steps to spare: its
\* score is saved once.
C19_Witness ==
    /\ Ready
    /\ isActive
    /\ isComplete
    /\ updates = 1
    /\ AllCorrect(grid)
    /\ score = 10000 \div (timer + 1)
    /\ saved = 1

====
